---- MODULE Spec2Model ----
(***************************************************************************)
(* Model of the spore-dob-1 decoder: schema decoding (decode_trait_schema), *)
(* trait lookup, value matching, item encoding and the grouping pipeline    *)
(* (dobs_parse_parameters, dobs_parse_syscall_parameters), as called from   *)
(* main.                                                                    *)
(***************************************************************************)
EXTENDS Integers, Sequences, FiniteSets, TLC

VARIABLES pc, args, parameters, syscall_parameters, exit_code,
          traits, encoded, decoded, reencoded

\* the pipeline run by main
pipelineVars == <<args, parameters, syscall_parameters, exit_code>>
\* the encode/decode round trips of the schema
codecVars == <<traits, encoded, decoded, reencoded>>

vars == <<pc, pipelineVars, codecVars>>

(***************************************************************************)
(* Bounds of the model.                                                    *)
(***************************************************************************)
\* longest match table (number of declared [key, value] items) of a row
MaxTable == 2
\* largest number used as a trait value or in a match key
MaxNum == 2
\* longest schema (number of rows) given to the pipeline
MaxRows == 3
\* longest trait output (number of DOB0Output records)
MaxTraits == 2
\* longest list of schema entries / rows given to the encode-decode round trips
MaxCodec == 1
\* largest number of buffers given to dobs_parse_parameters
MaxArgs == 3
\* longest schema of possibly malformed rows given to dobs_parse_parameters
MaxPool == 2

(***************************************************************************)
(* Generic helpers                                                         *)
(***************************************************************************)
SeqsUpTo(S, n) == UNION {[1..k -> S] : k \in 0..n}

\* the same, without a repeated element
DistinctSeqsUpTo(S, n) ==
    {q \in SeqsUpTo(S, n) : \A i, j \in DOMAIN q : i # j => q[i] # q[j]}

Min(S) == CHOOSE x \in S : \A y \in S : x <= y

\* Option<T>: None / Some(v).  `v` of None is never read.
None == [some |-> FALSE, v |-> <<>>]
Some(x) == [some |-> TRUE, v |-> x]

\* Result<T, Error>.  st = "ok" | "err" | "panic" (an unwrap() that aborts).
Ok(x) == [st |-> "ok", v |-> x, err |-> "None"]
Err(e) == [st |-> "err", v |-> <<>>, err |-> e]
Panic == [st |-> "panic", v |-> <<>>, err |-> "panic"]

\* index of the first element of a sequence of Results that is not Ok, 0 if none:
\* what `.map(f).collect::<Result<_, _>>()` stops at.
FirstFailure(rs) ==
    IF \E i \in DOMAIN rs : rs[i].st # "ok"
    THEN Min({i \in DOMAIN rs : rs[i].st # "ok"})
    ELSE 0

(***************************************************************************)
(* types.rs: Error                                                         *)
(***************************************************************************)
Errors == <<"ParseInvalidArgCount", "ParseInvalidDOB0Output", "ParseInvalidTraitsBase",
            "SchemaInsufficientElements", "SchemaInvalidName", "SchemaInvalidTraitName",
            "SchemaInvalidType", "SchemaTypeMismatch", "SchemaInvalidPattern",
            "SchemaPatternMismatch", "SchemaInvalidArgs", "SchemaInvalidArgsElement",
            "SchemaInvalidParsedTraitType", "DecodeInvalidOptionArgs",
            "DecodeInvalidRawValue", "DecodeBadUTF8Format", "DecodeBadColorCodeFormat">>

\* #[repr(u64)] with ParseInvalidArgCount = 1: `err as u64`
ErrorCode(e) == CHOOSE i \in DOMAIN Errors : Errors[i] = e

(***************************************************************************)
(* serde_json::Value, as far as the decoder looks at it.                   *)
(* t: "null" | "bool" | "string" | "u64" | "i64" | "f64" | "array" |       *)
(* "object" ("i64" is a negative integer, "f64" a fractional number).      *)
(***************************************************************************)
JNull == [t |-> "null", s |-> "", n |-> 0, a |-> <<>>]
JStr(x) == [t |-> "string", s |-> x, n |-> 0, a |-> <<>>]
JNum(x) == [t |-> "u64", s |-> "", n |-> x, a |-> <<>>]
JNeg(x) == [t |-> "i64", s |-> "", n |-> x, a |-> <<>>]
JArr(x) == [t |-> "array", s |-> "", n |-> 0, a |-> x]
JBool == [t |-> "bool", s |-> "", n |-> 0, a |-> <<>>]
\* the object {}
JObj == [t |-> "object", s |-> "", n |-> 0, a |-> <<>>]
\* an object is the sequence of its members, as written; a member is a key
\* and a value
JMember(key, value) == [t |-> "member", s |-> key, n |-> 0, a |-> <<value>>]
JObject(members) == [t |-> "object", s |-> "", n |-> 0, a |-> members]
\* the fractional number x + 1/2
JFrac(x) == [t |-> "f64", s |-> "", n |-> x, a |-> <<>>]

is_number(j) == j.t \in {"u64", "i64", "f64"}
is_string(j) == j.t = "string"
is_array(j) == j.t = "array"
as_str(j) == IF j.t = "string" THEN Some(j.s) ELSE [some |-> FALSE, v |-> ""]
as_u64(j) == IF j.t = "u64" THEN Some(j.n) ELSE [some |-> FALSE, v |-> 0]

(***************************************************************************)
(* types.rs: ParsedTrait, DOB0Output, DOB0TraitValue, TraitSchema          *)
(***************************************************************************)
PString(x) == [k |-> "String", s |-> x, n |-> 0]
PNumber(x) == [k |-> "Number", s |-> "", n |-> x]

DOB0Output(name, values) == [name |-> name, traits |-> values]

KString(x) == [k |-> "String", s |-> x, a |-> 0, b |-> 0]
KNumber(x) == [k |-> "Number", s |-> "", a |-> x, b |-> 0]
KRange(x, y) == [k |-> "Range", s |-> "", a |-> x, b |-> y]
KAny == [k |-> "Any", s |-> "", a |-> 0, b |-> 0]

\* The strings the model uses as names, keys and trait values, in the byte order
\* of Rust's `impl Ord for String`.
StrOrder == <<"#0000FF", "#FF0000", "#FFFFFF", "*", "0", "1", "Age", "Alice", "Bob",
              "DNA", "Ethan", "Name", "U1", "U2", "Zed">>
StrRank(x) == CHOOSE i \in DOMAIN StrOrder : StrOrder[i] = x

\* position of a variant in `enum DOB0TraitValue { String, Number, Range, Any }`
VariantIndex(key) ==
    CASE key.k = "String" -> 0
      [] key.k = "Number" -> 1
      [] key.k = "Range" -> 2
      [] key.k = "Any" -> 3

\* #[derive(PartialOrd, Ord)] on DOB0TraitValue: by variant, then by fields
KeyLess(x, y) ==
    \/ VariantIndex(x) < VariantIndex(y)
    \/ /\ x.k = y.k
       /\ CASE x.k = "String" -> StrRank(x.s) < StrRank(y.s)
            [] x.k = "Number" -> x.a < y.a
            [] x.k = "Range" -> x.a < y.a \/ (x.a = y.a /\ x.b < y.b)
            [] x.k = "Any" -> FALSE

TraitSchema(name, type_, dob0_trait, pattern, a) ==
    [name |-> name, type_ |-> type_, dob0_trait |-> dob0_trait,
     pattern |-> pattern, args |-> a]

(***************************************************************************)
(* BTreeMap<DOB0TraitValue, String>: a sequence of [key, value] entries in *)
(* strictly ascending key order, which is the order `for (key, value) in   *)
(* args` visits them in.                                                   *)
(***************************************************************************)
Entry(key, value) == [key |-> key, value |-> value]

\* BTreeMap::insert: an equal key keeps its place and takes the new value
BTreeInsert(map, key, value) ==
    IF \E i \in DOMAIN map : map[i].key = key
    THEN [i \in DOMAIN map |->
            IF map[i].key = key THEN Entry(key, value) ELSE map[i]]
    ELSE LET n == Cardinality({i \in DOMAIN map : KeyLess(map[i].key, key)})
         IN SubSeq(map, 1, n) \o <<Entry(key, value)>> \o SubSeq(map, n + 1, Len(map))

RECURSIVE BTreeCollectFrom(_, _, _)
BTreeCollectFrom(map, pairs, i) ==
    IF i > Len(pairs) THEN map
    ELSE BTreeCollectFrom(BTreeInsert(map, pairs[i].key, pairs[i].value), pairs, i + 1)

\* `.collect::<BTreeMap<_, _>>()` of the (key, value) pairs in iteration order
BTreeCollect(pairs) == BTreeCollectFrom(<<>>, pairs, 1)

(***************************************************************************)
(* decoder/mod.rs: decode_trait_schema                                     *)
(***************************************************************************)
\* the key of one match-table item
DecodeKey(trait_pattern) ==
    IF is_number(trait_pattern) THEN
        IF as_u64(trait_pattern).some
        THEN Ok(KNumber(as_u64(trait_pattern).v))
        ELSE Panic
    ELSE IF is_string(trait_pattern) THEN Ok(KString(trait_pattern.s))
    ELSE IF is_array(trait_pattern) THEN
        LET range == trait_pattern.a IN
        IF Len(range) >= 1 /\ as_str(range[1]).some /\ as_str(range[1]).v = "*"
        THEN Ok(KAny)
        ELSE IF Len(range) # 2 THEN Err("SchemaInvalidArgsElement")
        ELSE IF ~as_u64(range[1]).some THEN Err("SchemaInvalidArgsElement")
        ELSE IF ~as_u64(range[2]).some THEN Err("SchemaInvalidArgsElement")
        ELSE Ok(KRange(as_u64(range[1]).v, as_u64(range[2]).v))
    ELSE Err("SchemaInvalidArgsElement")

\* one item of the match table: Result<(DOB0TraitValue, String), Error>
DecodeArgsItem(value) ==
    IF ~is_array(value) THEN Err("SchemaInvalidArgsElement")
    ELSE LET item == value.a IN
         IF Len(item) < 2 THEN Err("SchemaInvalidArgsElement")
         ELSE LET key == DecodeKey(item[1]) IN
              IF key.st # "ok" THEN key
              ELSE IF ~as_str(item[2]).some THEN Err("SchemaInvalidArgsElement")
              ELSE Ok(Entry(key.v, as_str(item[2]).v))

\* schema.get(4): Result<Option<BTreeMap>, Error>
DecodeArgs(schema) ==
    IF Len(schema) < 5 THEN Ok(None)
    ELSE IF ~is_array(schema[5]) THEN Err("SchemaInvalidArgs")
    ELSE LET items == [i \in DOMAIN schema[5].a |-> DecodeArgsItem(schema[5].a[i])]
             bad == FirstFailure(items)
         IN IF bad # 0 THEN [items[bad] EXCEPT !.v = <<>>]
            ELSE Ok(Some(BTreeCollect([i \in DOMAIN items |-> items[i].v])))

\* a decoder that looks at the kind before the name
DecodeRow_KindBeforeName(schema) ==
    IF Len(schema) < 4 THEN Err("SchemaInsufficientElements")
    ELSE IF ~as_str(schema[2]).some THEN Err("SchemaInvalidType")
    ELSE IF as_str(schema[2]).v \notin {"color", "uri", "image"}
         THEN Err("SchemaTypeMismatch")
    ELSE IF ~as_str(schema[1]).some THEN Err("SchemaInvalidName")
    ELSE IF ~as_str(schema[3]).some THEN Err("SchemaInvalidTraitName")
    ELSE IF ~as_str(schema[4]).some THEN Err("SchemaInvalidPattern")
    ELSE LET pattern_str == as_str(schema[4]).v
             type_ == CASE as_str(schema[2]).v = "color" -> "ColorCode"
                        [] as_str(schema[2]).v = "uri" -> "URI"
                        [] as_str(schema[2]).v = "image" -> "RawImage"
             pattern ==
                 IF pattern_str \in {"options", "range"} /\ type_ \in {"ColorCode", "URI"}
                 THEN Some(IF pattern_str = "options" THEN "Options" ELSE "Range")
                 ELSE IF pattern_str = "raw" /\ type_ \in {"RawImage", "URI"}
                 THEN Some("Raw")
                 ELSE [some |-> FALSE, v |-> ""]
         IN IF ~pattern.some THEN Err("SchemaPatternMismatch")
            ELSE LET a == DecodeArgs(schema) IN
                 IF a.st # "ok" THEN a
                 ELSE Ok(TraitSchema(as_str(schema[1]).v, type_, as_str(schema[3]).v,
                                     pattern.v, a.v))

\* a decoder that takes every recognized pattern keyword with every kind
DecodeRow_AnyPatternForAnyKind(schema) ==
    IF Len(schema) < 4 THEN Err("SchemaInsufficientElements")
    ELSE IF ~as_str(schema[1]).some THEN Err("SchemaInvalidName")
    ELSE IF ~as_str(schema[2]).some THEN Err("SchemaInvalidType")
    ELSE IF as_str(schema[2]).v \notin {"color", "uri", "image"}
         THEN Err("SchemaTypeMismatch")
    ELSE IF ~as_str(schema[3]).some THEN Err("SchemaInvalidTraitName")
    ELSE IF ~as_str(schema[4]).some THEN Err("SchemaInvalidPattern")
    ELSE LET pattern_str == as_str(schema[4]).v
             type_ == CASE as_str(schema[2]).v = "color" -> "ColorCode"
                        [] as_str(schema[2]).v = "uri" -> "URI"
                        [] as_str(schema[2]).v = "image" -> "RawImage"
             pattern ==
                 IF pattern_str = "options" THEN Some("Options")
                 ELSE IF pattern_str = "range" THEN Some("Range")
                 ELSE IF pattern_str = "raw" THEN Some("Raw")
                 ELSE [some |-> FALSE, v |-> ""]
         IN IF ~pattern.some THEN Err("SchemaPatternMismatch")
            ELSE LET a == DecodeArgs(schema) IN
                 IF a.st # "ok" THEN a
                 ELSE Ok(TraitSchema(as_str(schema[1]).v, type_, as_str(schema[3]).v,
                                     pattern.v, a.v))

\* one row: Result<TraitSchema, Error>
DecodeRow(schema) ==
    IF Len(schema) < 4 THEN Err("SchemaInsufficientElements")
    ELSE IF ~as_str(schema[1]).some THEN Err("SchemaInvalidName")
    ELSE IF ~as_str(schema[2]).some THEN Err("SchemaInvalidType")
    ELSE IF as_str(schema[2]).v \notin {"color", "uri", "image"}
         THEN Err("SchemaTypeMismatch")
    ELSE IF ~as_str(schema[3]).some THEN Err("SchemaInvalidTraitName")
    ELSE IF ~as_str(schema[4]).some THEN Err("SchemaInvalidPattern")
    ELSE LET name == as_str(schema[1]).v
             type_ == CASE as_str(schema[2]).v = "color" -> "ColorCode"
                        [] as_str(schema[2]).v = "uri" -> "URI"
                        [] as_str(schema[2]).v = "image" -> "RawImage"
             dob0_trait == as_str(schema[3]).v
             pattern_str == as_str(schema[4]).v
             pattern ==
                 IF pattern_str = "options" /\ type_ \in {"ColorCode", "URI"}
                 THEN Some("Options")
                 ELSE IF pattern_str = "range" /\ type_ \in {"ColorCode", "URI"}
                 THEN Some("Range")
                 ELSE IF pattern_str = "raw" /\ type_ \in {"RawImage", "URI"}
                 THEN Some("Raw")
                 ELSE [some |-> FALSE, v |-> ""]
         IN IF ~pattern.some THEN Err("SchemaPatternMismatch")
            ELSE LET a == DecodeArgs(schema) IN
                 IF a.st # "ok" THEN a
                 ELSE Ok(TraitSchema(name, type_, dob0_trait, pattern.v, a.v))

decode_trait_schema(traits_pool) ==
    LET rows == [i \in DOMAIN traits_pool |-> DecodeRow(traits_pool[i])]
        bad == FirstFailure(rows)
    IN IF bad # 0 THEN [rows[bad] EXCEPT !.v = <<>>]
       ELSE Ok([i \in DOMAIN rows |-> rows[i].v])

(***************************************************************************)
(* decoder/mod.rs: get_dob0_value_by_name, get_dob1_value_by_dob0_value    *)
(***************************************************************************)
NoParsedTrait == [some |-> FALSE, v |-> PString("")]
NoString == [some |-> FALSE, v |-> ""]

\* find_map over the outputs: the first output of that name whose
\* `traits.first()` is Some gives the value
get_dob0_value_by_name(trait_name, dob0_output) ==
    LET hits == {i \in DOMAIN dob0_output :
                    /\ dob0_output[i].name = trait_name
                    /\ Len(dob0_output[i].traits) > 0}
    IN IF hits = {} THEN NoParsedTrait
       ELSE Some(dob0_output[Min(hits)].traits[1])

\* ParsedTrait::get_string / get_number
get_string(value) ==
    IF value.k = "String" THEN Ok(value.s) ELSE Err("SchemaInvalidParsedTraitType")
get_number(value) ==
    IF value.k = "Number" THEN [st |-> "ok", v |-> value.n, err |-> "None"]
    ELSE [st |-> "err", v |-> 0, err |-> "SchemaInvalidParsedTraitType"]

\* a range that leaves its end out
InRange_EndExclusive(start, end, dob0_number) ==
    start <= dob0_number /\ dob0_number < end

\* `*start <= dob0_number && dob0_number <= *end`
InRange(start, end, dob0_number) == start <= dob0_number /\ dob0_number <= end

\* a loop that gives up at the first key that does not match
MatchKey_ReturnOnMiss(key, value, dob0_value) ==
    IF key.k = "Any" \/ (key.k = "String" /\ dob0_value.k = "String" /\ dob0_value.s = key.s)
          \/ (key.k = "Number" /\ dob0_value.k = "Number" /\ dob0_value.n = key.a)
          \/ (key.k = "Range" /\ dob0_value.k = "Number"
                 /\ key.a <= dob0_value.n /\ dob0_value.n <= key.b)
    THEN [go |-> "return", res |-> Ok(Some(value))]
    ELSE IF key.k = "String" /\ dob0_value.k = "String"
    THEN [go |-> "return", res |-> Ok(NoString)]
    ELSE IF (key.k = "String") # (dob0_value.k = "String")
    THEN [go |-> "return", res |-> Err("SchemaInvalidParsedTraitType")]
    ELSE [go |-> "next", res |-> Ok(NoString)]

\* one turn of the loop over the map: "return" (with a Result) or "next"
MatchKey(key, value, dob0_value) ==
    CASE key.k = "Number" ->
            IF get_number(dob0_value).st # "ok"
            THEN [go |-> "return", res |-> Err(get_number(dob0_value).err)]
            ELSE IF get_number(dob0_value).v = key.a
            THEN [go |-> "return", res |-> Ok(Some(value))]
            ELSE [go |-> "next", res |-> Ok(NoString)]
      [] key.k = "String" ->
            IF get_string(dob0_value).st # "ok"
            THEN [go |-> "return", res |-> Err(get_string(dob0_value).err)]
            ELSE IF get_string(dob0_value).v = key.s
            THEN [go |-> "return", res |-> Ok(Some(value))]
            ELSE [go |-> "next", res |-> Ok(NoString)]
      [] key.k = "Range" ->
            IF get_number(dob0_value).st # "ok"
            THEN [go |-> "return", res |-> Err(get_number(dob0_value).err)]
            ELSE IF InRange(key.a, key.b, get_number(dob0_value).v)
            THEN [go |-> "return", res |-> Ok(Some(value))]
            ELSE [go |-> "next", res |-> Ok(NoString)]
      [] key.k = "Any" -> [go |-> "return", res |-> Ok(Some(value))]

RECURSIVE MatchFrom(_, _, _)
MatchFrom(map, i, dob0_value) ==
    IF i > Len(map) THEN Ok(NoString)
    ELSE LET turn == MatchKey(map[i].key, map[i].value, dob0_value) IN
         IF turn.go = "return" THEN turn.res
         ELSE MatchFrom(map, i + 1, dob0_value)

\* Result<Option<String>, Error>; `a` is the BTreeMap, visited in key order
get_dob1_value_by_dob0_value(a, dob0_value) == MatchFrom(a, 1, dob0_value)

(***************************************************************************)
(* decoder/mod.rs: dobs_parse_syscall_parameters                           *)
(***************************************************************************)
\* an Item of the ItemVec: the union member and the bytes of the content string
\* (the string stands for its UTF-8 bytes)
Item(type_, value) ==
    [tag |-> CASE type_ = "ColorCode" -> "Color"
               [] type_ = "URI" -> "URI"
               [] type_ = "RawImage" -> "RawImage",
     bytes |-> value]

\* Raw without the map_err: the error of get_string comes through
SelectValue_RawErrorUnmapped(image, value) ==
    IF image.pattern \in {"Options", "Range"} THEN
        IF ~image.args.some THEN Err("DecodeInvalidOptionArgs")
        ELSE get_dob1_value_by_dob0_value(image.args.v, value)
    ELSE IF get_string(value).st # "ok" THEN Err(get_string(value).err)
         ELSE Ok(Some(get_string(value).v))

\* the value selected for one image whose trait resolved to `value`
SelectValue(image, value) ==
    IF image.pattern \in {"Options", "Range"} THEN
        IF ~image.args.some THEN Err("DecodeInvalidOptionArgs")
        ELSE get_dob1_value_by_dob0_value(image.args.v, value)
    ELSE \* Pattern::Raw
        IF get_string(value).st # "ok" THEN Err("DecodeInvalidRawValue")
        ELSE Ok(Some(get_string(value).v))

\* the loop with `continue` in the place of the first `break`
RECURSIVE ChunkItemsFrom_SkipUnresolved(_, _, _, _)
ChunkItemsFrom_SkipUnresolved(images, i, items, dob0_output) ==
    IF i > Len(images) THEN Ok(items)
    ELSE LET value == get_dob0_value_by_name(images[i].dob0_trait, dob0_output) IN
         IF ~value.some
         THEN ChunkItemsFrom_SkipUnresolved(images, i + 1, items, dob0_output)
         ELSE LET selected == SelectValue(images[i], value.v) IN
              IF selected.st # "ok" THEN Err(selected.err)
              ELSE IF ~selected.v.some THEN Ok(items)
              ELSE ChunkItemsFrom_SkipUnresolved(
                       images, i + 1,
                       Append(items, Item(images[i].type_, selected.v.v)),
                       dob0_output)

\* the loop with the match table asked for before the trait is resolved
RECURSIVE ChunkItemsFrom_TableCheckedFirst(_, _, _, _)
ChunkItemsFrom_TableCheckedFirst(images, i, items, dob0_output) ==
    IF i > Len(images) THEN Ok(items)
    ELSE IF images[i].pattern \in {"Options", "Range"} /\ ~images[i].args.some
    THEN Err("DecodeInvalidOptionArgs")
    ELSE LET value == get_dob0_value_by_name(images[i].dob0_trait, dob0_output) IN
         IF ~value.some THEN Ok(items)
         ELSE LET selected == SelectValue(images[i], value.v) IN
              IF selected.st # "ok" THEN Err(selected.err)
              ELSE IF ~selected.v.some THEN Ok(items)
              ELSE ChunkItemsFrom_TableCheckedFirst(
                       images, i + 1,
                       Append(items, Item(images[i].type_, selected.v.v)),
                       dob0_output)

\* the `for image in images.iter()` loop of one chunk, from image i on
RECURSIVE ChunkItemsFrom(_, _, _, _)
ChunkItemsFrom(images, i, items, dob0_output) ==
    IF i > Len(images) THEN Ok(items)
    ELSE LET value == get_dob0_value_by_name(images[i].dob0_trait, dob0_output) IN
         IF ~value.some THEN Ok(items) \* break
         ELSE LET selected == SelectValue(images[i], value.v) IN
              IF selected.st # "ok" THEN Err(selected.err) \* `?`
              ELSE IF ~selected.v.some THEN Ok(items) \* break
              ELSE ChunkItemsFrom(images, i + 1,
                                  Append(items, Item(images[i].type_, selected.v.v)),
                                  dob0_output)

\* the closure given to `.map`: Result<(String, ItemVec), Error>
ChunkResult(images, dob0_output) ==
    LET items == ChunkItemsFrom(images, 1, <<>>, dob0_output) IN
    IF items.st # "ok" THEN items
    ELSE Ok([name |-> images[1].name, items |-> items.v])

\* slice::chunk_by(|a, b| a.name == b.name): maximal runs of adjacent equal names
RECURSIVE ChunkByFrom(_, _, _)
ChunkByFrom(s, i, chunks) ==
    IF i > Len(s) THEN chunks
    ELSE IF i > 1 /\ s[i - 1].name = s[i].name
    THEN ChunkByFrom(s, i + 1,
                     [chunks EXCEPT ![Len(chunks)] = Append(chunks[Len(chunks)], s[i])])
    ELSE ChunkByFrom(s, i + 1, Append(chunks, <<s[i]>>))

\* grouping by name wherever the name occurs, in order of first occurrence
RECURSIVE MergeByNameFrom(_, _, _)
MergeByNameFrom(s, i, chunks) ==
    IF i > Len(s) THEN chunks
    ELSE IF \E c \in DOMAIN chunks : chunks[c][1].name = s[i].name
    THEN LET c == CHOOSE c \in DOMAIN chunks : chunks[c][1].name = s[i].name
         IN MergeByNameFrom(s, i + 1, [chunks EXCEPT ![c] = Append(chunks[c], s[i])])
    ELSE MergeByNameFrom(s, i + 1, Append(chunks, <<s[i]>>))

chunk_by_MergeByName(images_base) == MergeByNameFrom(images_base, 1, <<>>)

chunk_by(images_base) == ChunkByFrom(images_base, 1, <<>>)

\* a pipeline that drops the chunks that fail (`.filter_map(Result::ok)`)
dobs_parse_syscall_parameters_DropFailed(p) ==
    LET chunks == chunk_by(p.images_base)
        results == [c \in DOMAIN chunks |-> ChunkResult(chunks[c], p.dob0_output)]
        good == {c \in DOMAIN results : results[c].st = "ok"}
        nth(k) == CHOOSE c \in good : Cardinality({d \in good : d <= c}) = k
    IN Ok([k \in 1..Cardinality(good) |-> results[nth(k)].v])

dobs_parse_syscall_parameters(p) ==
    LET chunks == chunk_by(p.images_base)
        results == [c \in DOMAIN chunks |-> ChunkResult(chunks[c], p.dob0_output)]
        bad == FirstFailure(results)
    IN IF bad # 0 THEN Err(results[bad].err)
       ELSE Ok([c \in DOMAIN results |-> results[c].v])

(***************************************************************************)
(* decoder/mod.rs: dobs_parse_parameters.  A buffer is                     *)
(*   form "empty"   : no bytes                                             *)
(*   form "garbage" : bytes that are not JSON                              *)
(*   form "json"    : the text of a JSON value (field value)               *)
(***************************************************************************)
EmptyBuffer == [form |-> "empty", value |-> JNull]
GarbageBuffer == [form |-> "garbage", value |-> JNull]
ValueBuffer(j) == [form |-> "json", value |-> j]

\* the JSON that serde writes for a ParsedTrait and a DOB0Output:
\* {"String":"Ethan"}, {"Number":23}, {"name":"Name","traits":[...]}
ParsedTraitJson(value) ==
    JObject(<<JMember(value.k, IF value.k = "String" THEN JStr(value.s)
                                                     ELSE JNum(value.n))>>)
DOB0OutputJson(output) ==
    JObject(<<JMember("name", JStr(output.name)),
              JMember("traits",
                      JArr([i \in DOMAIN output.traits |->
                              ParsedTraitJson(output.traits[i])]))>>)

\* the buffer holding a trait output written that way
DOB0Buffer(outputs) ==
    ValueBuffer(JArr([i \in DOMAIN outputs |-> DOB0OutputJson(outputs[i])]))

\* serde_json reads arrays and objects nested less than 128 deep; at the
\* 128th level it gives up with "recursion limit exceeded"
RecursionLimit == 128

\* the values directly inside the arrays and objects of a set of values
Nested(S) ==
    UNION {{IF j.a[i].t = "member" THEN j.a[i].a[1] ELSE j.a[i] : i \in DOMAIN j.a} :
              j \in {x \in S : x.t \in {"array", "object"}}}

\* the values k levels inside the values of S, reached by halves so that the
\* evaluation is not itself nested k deep
RECURSIVE Descend(_, _)
Descend(S, k) ==
    IF k = 0 \/ S = {} THEN S
    ELSE IF k = 1 THEN Nested(S)
    ELSE LET inner == Descend(S, k \div 2)
         IN  IF inner = {} THEN {} ELSE Descend(inner, k - (k \div 2))

\* the text of the value is refused for its depth: it has an array or an
\* object RecursionLimit - 1 levels inside, the RecursionLimit-th level
TooDeep(j) ==
    \E x \in Descend({j}, RecursionLimit - 1) : x.t \in {"array", "object"}

\* serde_json::from_slice::<Vec<Vec<Value>>>: an array all of whose elements
\* are arrays, nested less than RecursionLimit deep
VecVecValue(buffer) ==
    IF /\ buffer.form = "json"
       /\ is_array(buffer.value)
       /\ \A i \in DOMAIN buffer.value.a : is_array(buffer.value.a[i])
       /\ ~TooDeep(buffer.value)
    THEN Ok([i \in DOMAIN buffer.value.a |-> buffer.value.a[i].a])
    ELSE Err("ParseInvalidTraitsBase")

\* #[derive(Deserialize)] enum ParsedTrait: an object of the one member
\* "String" with a string or "Number" with a u64
ParsedTraitOf(j) ==
    IF j.t = "object" /\ Len(j.a) = 1 /\ j.a[1].s = "String" /\ j.a[1].a[1].t = "string"
    THEN Ok(PString(j.a[1].a[1].s))
    ELSE IF j.t = "object" /\ Len(j.a) = 1 /\ j.a[1].s = "Number"
               /\ j.a[1].a[1].t = "u64"
    THEN Ok(PNumber(j.a[1].a[1].n))
    ELSE Err("ParseInvalidDOB0Output")

\* Vec<ParsedTrait>
VecParsedTrait(j) ==
    IF j.t = "array" /\ \A i \in DOMAIN j.a : ParsedTraitOf(j.a[i]).st = "ok"
    THEN Ok([i \in DOMAIN j.a |-> ParsedTraitOf(j.a[i]).v])
    ELSE Err("ParseInvalidDOB0Output")

\* the members of an object that have the given key
MembersOf(j, key) == {i \in DOMAIN j.a : j.a[i].s = key}

\* #[derive(Deserialize)] struct DOB0Output: an object with the fields name and
\* traits, each once (other fields are skipped), or an array of exactly the
\* two fields in their order
DOB0OutputOf(j) ==
    IF j.t = "array" THEN
        IF /\ Len(j.a) = 2
           /\ j.a[1].t = "string"
           /\ VecParsedTrait(j.a[2]).st = "ok"
        THEN Ok(DOB0Output(j.a[1].s, VecParsedTrait(j.a[2]).v))
        ELSE Err("ParseInvalidDOB0Output")
    ELSE IF j.t = "object" THEN
        IF /\ Cardinality(MembersOf(j, "name")) = 1
           /\ Cardinality(MembersOf(j, "traits")) = 1
        THEN LET name == j.a[CHOOSE i \in MembersOf(j, "name") : TRUE].a[1]
                 values == VecParsedTrait(j.a[CHOOSE i \in MembersOf(j, "traits") : TRUE].a[1])
             IN IF name.t = "string" /\ values.st = "ok"
                THEN Ok(DOB0Output(name.s, values.v))
                ELSE Err("ParseInvalidDOB0Output")
        ELSE Err("ParseInvalidDOB0Output")
    ELSE Err("ParseInvalidDOB0Output")

\* serde_json::from_slice::<Vec<DOB0Output>> (what it reads into the
\* DOB0Outputs is nested 4 deep, far below RecursionLimit)
VecDOB0Output(buffer) ==
    IF /\ buffer.form = "json"
       /\ is_array(buffer.value)
       /\ \A i \in DOMAIN buffer.value.a : DOB0OutputOf(buffer.value.a[i]).st = "ok"
    THEN Ok([i \in DOMAIN buffer.value.a |-> DOB0OutputOf(buffer.value.a[i]).v])
    ELSE Err("ParseInvalidDOB0Output")

Parameters(dob0_output, images_base) ==
    [dob0_output |-> dob0_output, images_base |-> images_base]

NoParameters == Parameters(<<>>, <<>>)

\* a parser that reads buffer 1 before buffer 0
dobs_parse_parameters_Buffer1First(a) ==
    IF Len(a) # 2 THEN [Err("ParseInvalidArgCount") EXCEPT !.v = NoParameters]
    ELSE IF VecVecValue(a[2]).st # "ok"
    THEN [VecVecValue(a[2]) EXCEPT !.v = NoParameters]
    ELSE IF a[1].form = "empty"
    THEN [Err("ParseInvalidDOB0Output") EXCEPT !.v = NoParameters]
    ELSE IF VecDOB0Output(a[1]).st # "ok"
    THEN [VecDOB0Output(a[1]) EXCEPT !.v = NoParameters]
    ELSE LET images_base == decode_trait_schema(VecVecValue(a[2]).v) IN
         IF images_base.st # "ok" THEN [images_base EXCEPT !.v = NoParameters]
         ELSE Ok(Parameters(VecDOB0Output(a[1]).v, images_base.v))

dobs_parse_parameters(a) ==
    IF Len(a) # 2 THEN [Err("ParseInvalidArgCount") EXCEPT !.v = NoParameters]
    ELSE IF a[1].form = "empty"
    THEN [Err("ParseInvalidDOB0Output") EXCEPT !.v = NoParameters]
    ELSE IF VecDOB0Output(a[1]).st # "ok"
    THEN [VecDOB0Output(a[1]) EXCEPT !.v = NoParameters]
    ELSE IF VecVecValue(a[2]).st # "ok"
    THEN [VecVecValue(a[2]) EXCEPT !.v = NoParameters]
    ELSE LET images_base == decode_trait_schema(VecVecValue(a[2]).v) IN
         IF images_base.st # "ok" THEN [images_base EXCEPT !.v = NoParameters]
         ELSE Ok(Parameters(VecDOB0Output(a[1]).v, images_base.v))

(***************************************************************************)
(* tests/decoder.rs, decoder/types.rs: TraitSchema::encode                 *)
(***************************************************************************)
EncodeKey(key) ==
    CASE key.k = "String" -> JStr(key.s)
      [] key.k = "Number" -> JNum(key.a)
      [] key.k = "Range" -> JArr(<<JNum(key.a), JNum(key.b)>>)
      [] key.k = "Any" -> JArr(<<JStr("*")>>)

encode(self) ==
    LET values ==
            <<JStr(self.name),
              JStr(CASE self.type_ = "ColorCode" -> "color"
                     [] self.type_ = "URI" -> "uri"
                     [] self.type_ = "RawImage" -> "raw"),
              JStr(self.dob0_trait),
              JStr(CASE self.pattern = "Options" -> "options"
                     [] self.pattern = "Range" -> "range"
                     [] self.pattern = "Raw" -> "raw")>>
    IN IF self.args.some
       THEN Append(values,
                   JArr([i \in DOMAIN self.args.v |->
                           JArr(<<EncodeKey(self.args.v[i].key),
                                  JStr(self.args.v[i].value)>>)]))
       ELSE values

(***************************************************************************)
(* The inputs the specifications draw from                                 *)
(***************************************************************************)
Nums == 0..MaxNum

\* match-table keys as they are written in the schema JSON
JsonKeys ==
    {JStr("Alice"), JStr("Ethan"), JArr(<<JStr("*")>>)}
        \cup {JNum(n) : n \in Nums}
        \cup {JArr(<<JNum(r[1]), JNum(r[2])>>) : r \in {q \in Nums \X Nums : q[1] <= q[2]}}

JsonItems == {JArr(<<key, JStr(c)>>) : key \in JsonKeys, c \in {"#FF0000", "#0000FF"}}

JsonTables == SeqsUpTo(JsonItems, MaxTable)

TraitValues == {PString("Alice"), PString("Ethan")} \cup {PNumber(n) : n \in Nums}

Row(name, kind, trait, pattern) == <<JStr(name), JStr(kind), JStr(trait), JStr(pattern)>>

RowsBuffer(rows) == ValueBuffer(JArr([i \in DOMAIN rows |-> JArr(rows[i])]))

NoResult == [st |-> "none", v |-> <<>>, err |-> "None"]
NoParametersYet == [st |-> "none", v |-> NoParameters, err |-> "None"]

\* the variables of the round trips, while the pipeline runs
CodecIdle == traits = <<>> /\ encoded = <<>> /\ decoded = NoResult /\ reencoded = <<>>

\* the variables of the pipeline, while a round trip runs
PipelineIdle ==
    /\ args = <<>>
    /\ parameters = NoParametersYet
    /\ syscall_parameters = NoResult
    /\ exit_code = -1

(***************************************************************************)
(* main.rs: main                                                           *)
(***************************************************************************)
\* `return err as u64`; an unwrap() that fails ends in the panic handler,
\* which exits with 101
ExitCode(result) == IF result.st = "panic" THEN 101 ELSE ErrorCode(result.err)

ParseParameters ==
    /\ pc = "start"
    /\ parameters' = dobs_parse_parameters(args)
    /\ IF parameters'.st = "ok"
       THEN pc' = "parsed" /\ exit_code' = exit_code
       ELSE pc' = "exit" /\ exit_code' = ExitCode(parameters')
    /\ UNCHANGED <<args, syscall_parameters, codecVars>>

ParseSyscallParameters ==
    /\ pc = "parsed"
    /\ syscall_parameters' = dobs_parse_syscall_parameters(parameters.v)
    /\ IF syscall_parameters'.st = "ok"
       THEN pc' = "compose" /\ exit_code' = exit_code
       ELSE pc' = "exit" /\ exit_code' = ExitCode(syscall_parameters')
    /\ UNCHANGED <<args, parameters, codecVars>>

\* the images are composed by the host (syscall_combine_image), one call pair
\* per pattern: the size it reports and the bytes it returns are the host's.
\* If the buffer cannot be resized to that size, or the bytes of an image are
\* not UTF-8 (`expect`), main panics and exits with 101; otherwise the output
\* is written and main returns 0.  Without a pattern the host is not called.
ComposeImages ==
    /\ pc = "compose"
    /\ pc' = "exit"
    /\ \E host_ok \in (IF syscall_parameters.v = <<>> THEN {TRUE} ELSE BOOLEAN) :
          exit_code' = IF host_ok THEN 0 ELSE 101
    /\ UNCHANGED <<args, parameters, syscall_parameters, codecVars>>

Next == ParseParameters \/ ParseSyscallParameters \/ ComposeImages

(***************************************************************************)
(* The matcher: one row "0" with a match table against one trait "Name"    *)
(***************************************************************************)
InitMatch ==
    /\ pc = "start"
    /\ \E table \in JsonTables, value \in TraitValues, pattern \in {"options", "range"} :
          args = <<DOB0Buffer(<<DOB0Output("Name", <<value>>)>>),
                   RowsBuffer(<<Append(Row("0", "color", "Name", pattern), JArr(table))>>)>>
    /\ parameters = NoParametersYet
    /\ syscall_parameters = NoResult
    /\ exit_code = -1
    /\ CodecIdle

SpecMatch == InitMatch /\ [][Next]_vars

(***************************************************************************)
(* The pipeline: a schema of up to MaxRows rows against a trait output of  *)
(* up to MaxTraits different records                                       *)
(***************************************************************************)
\* the rows of one image name
LayerRows(name) ==
    {Append(Row(name, "color", "Name", "options"),
            JArr(<<JArr(<<JStr("Alice"), JStr("#0000FF")>>),
                   JArr(<<JStr("Ethan"), JStr("#FF0000")>>),
                   JArr(<<JArr(<<JStr("*")>>), JStr("#FFFFFF")>>)>>)),
     Append(Row(name, "uri", "Age", "range"),
            JArr(<<JArr(<<JArr(<<JNum(0), JNum(1)>>), JStr("U1")>>)>>)),
     Append(Row(name, "image", "Name", "raw"),
            JArr(<<JArr(<<JArr(<<JStr("*")>>), JStr("U2")>>)>>)),
     Row(name, "color", "Age", "options")}

\* every row of image "0", and of image "1" the color row and the image row
SchemaRows == LayerRows("0") \cup {r \in LayerRows("1") : Len(r) = 5 /\ r[2].s # "uri"}

TraitOutputs ==
    {DOB0Output("Name", <<PString("Ethan")>>),
     DOB0Output("Name", <<PNumber(1)>>),
     DOB0Output("Age", <<PNumber(1)>>),
     DOB0Output("Age", <<PNumber(MaxNum), PString("Ethan")>>),
     DOB0Output("Age", <<>>)}

Init ==
    /\ pc = "start"
    /\ \E outputs \in DistinctSeqsUpTo(TraitOutputs, MaxTraits),
          rows \in SeqsUpTo(SchemaRows, MaxRows) :
          args = <<DOB0Buffer(outputs), RowsBuffer(rows)>>
    /\ parameters = NoParametersYet
    /\ syscall_parameters = NoResult
    /\ exit_code = -1
    /\ CodecIdle

Spec == Init /\ [][Next]_vars

(***************************************************************************)
(* The round trips: the unit test test_basic_trait_schema_encode_decode    *)
(* (entries, encoded, then decoded) and the decoding of rows followed by   *)
(* the encoding of the decoded entries                                     *)
(***************************************************************************)
CodecKeys == {KString("Alice"), KNumber(1), KRange(0, 1), KAny}

\* the BTreeMaps a test can build: `vec![...].into_iter().collect()`
CodecMaps ==
    {BTreeCollect(t) :
        t \in SeqsUpTo({Entry(key, "#FF0000") : key \in CodecKeys}, MaxTable)}

LegalPairs == {<<"ColorCode", "Options">>, <<"URI", "Options">>,
               <<"ColorCode", "Range">>, <<"URI", "Range">>,
               <<"RawImage", "Raw">>, <<"URI", "Raw">>}

\* TraitSchema::new
CodecEntries ==
    {TraitSchema("0", kp[1], "Name", kp[2], a) :
        kp \in LegalPairs, a \in {None} \cup {Some(m) : m \in CodecMaps}}

LegalKeywords == {<<"color", "options">>, <<"uri", "options">>,
                  <<"color", "range">>, <<"uri", "range">>,
                  <<"image", "raw">>, <<"uri", "raw">>}

\* well-formed rows, with and without a match table
CodecRows ==
    {Row("0", kw[1], "Name", kw[2]) : kw \in LegalKeywords}
        \cup {Append(Row("0", kw[1], "Name", kw[2]), JArr(table)) :
                 kw \in LegalKeywords,
                 table \in SeqsUpTo({JArr(<<EncodeKey(key), JStr("#FF0000")>>) :
                                        key \in CodecKeys}, MaxTable)}

TestEncode ==
    /\ pc = "test_encode"
    /\ encoded' = [i \in DOMAIN traits |-> encode(traits[i])]
    /\ pc' = "test_decode"
    /\ UNCHANGED <<pipelineVars, traits, decoded, reencoded>>

TestDecode ==
    /\ pc = "test_decode"
    /\ decoded' = decode_trait_schema(encoded)
    /\ pc' = "test_done"
    /\ UNCHANGED <<pipelineVars, traits, encoded, reencoded>>

DecodeSchema ==
    /\ pc = "decode"
    /\ decoded' = decode_trait_schema(encoded)
    /\ pc' = IF decoded'.st = "ok" THEN "reencode" ELSE "done"
    /\ UNCHANGED <<pipelineVars, traits, encoded, reencoded>>

ReEncode ==
    /\ pc = "reencode"
    /\ reencoded' = [i \in DOMAIN decoded.v |-> encode(decoded.v[i])]
    /\ pc' = "done"
    /\ UNCHANGED <<pipelineVars, traits, encoded, decoded>>

NextCodec == TestEncode \/ TestDecode \/ DecodeSchema \/ ReEncode

InitCodec ==
    /\ PipelineIdle
    /\ decoded = NoResult
    /\ reencoded = <<>>
    /\ \/ /\ pc = "test_encode"
          /\ traits \in SeqsUpTo(CodecEntries, MaxCodec)
          /\ encoded = <<>>
       \/ /\ pc = "decode"
          /\ traits = <<>>
          /\ encoded \in SeqsUpTo(CodecRows, MaxCodec)

SpecCodec == InitCodec /\ [][NextCodec]_vars

(***************************************************************************)
(* The parser: any number of buffers of any form, schemas of malformed     *)
(* rows, every (kind, pattern) pair, and match tables of malformed items   *)
(***************************************************************************)
NameOutput == DOB0Output("Name", <<PString("Alice")>>)

\* the same trait output with its record written as an array
NameOutputAsArray ==
    JArr(<<JStr("Name"), JArr(<<ParsedTraitJson(PString("Alice"))>>)>>)

Buffers0 ==
    {EmptyBuffer, GarbageBuffer, ValueBuffer(JNum(1)), ValueBuffer(JArr(<<JNum(1)>>)),
     ValueBuffer(JArr(<<JObj>>)),
     ValueBuffer(JArr(<<JObject(<<JMember("name", JStr("Name"))>>)>>)),
     ValueBuffer(JArr(<<JArr(<<JStr("Name")>>)>>)),
     ValueBuffer(JArr(<<JArr(<<JStr("Name"), JArr(<<JStr("Alice")>>)>>)>>)),
     ValueBuffer(JArr(<<NameOutputAsArray>>)),
     ValueBuffer(JArr(<<JArr(<<JStr("Name"), JArr(<<>>)>>)>>)),
     DOB0Buffer(<<>>), DOB0Buffer(<<NameOutput>>)}

\* a value put inside k arrays, one in another, built by halves
RECURSIVE Wrapped(_, _)
Wrapped(j, k) ==
    IF k = 0 THEN j
    ELSE IF k = 1 THEN JArr(<<j>>)
    ELSE LET inner == Wrapped(j, k \div 2)
         IN  IF ~is_array(inner) THEN inner ELSE Wrapped(inner, k - (k \div 2))

\* arrays nested in one another: Nest(n) is n + 1 deep
Nest(n) == Wrapped(JArr(<<>>), n)

Buffers1 ==
    {EmptyBuffer, GarbageBuffer, ValueBuffer(JStr("Zed")), ValueBuffer(JArr(<<JNum(1)>>)),
     ValueBuffer(JArr(<<JArr(<<>>), JNum(1)>>)), DOB0Buffer(<<NameOutput>>),
     ValueBuffer(JArr(<<NameOutputAsArray>>)),
     ValueBuffer(Nest(RecursionLimit - 2)), ValueBuffer(Nest(RecursionLimit - 1)),
     RowsBuffer(<<>>), RowsBuffer(<<<<JStr("0")>>>>),
     RowsBuffer(<<Row("0", "image", "Name", "raw")>>)}

\* rows whose elements are each right or wrong, cut to every length, and rows
\* with a fifth element
FullRows ==
    {<<n, k, t, p>> :
        n \in {JStr("0"), JNum(0)},
        k \in {JStr("color"), JNum(0), JStr("Zed")},
        t \in {JStr("Name"), JNull},
        p \in {JStr("options"), JNum(0), JStr("raw"), JStr("Zed")}}

HeadRows ==
    FullRows
        \cup {SubSeq(r, 1, l) : r \in FullRows, l \in 0..3}
        \cup {Append(r, x) :
                 r \in {q \in FullRows : /\ q[1] = JStr("0")
                                          /\ q[2] = JStr("color")
                                          /\ q[3] = JStr("Name")},
                 x \in {JNum(0), JArr(<<JNum(0)>>), JArr(<<>>)}}

\* every pair of recognized keywords, and a pattern that is no string
KindPatternRows ==
    {<<JStr("0"), JStr(k), JStr("Name"), p>> :
        k \in {"color", "uri", "image"},
        p \in {JStr("options"), JStr("range"), JStr("raw"), JNum(0)}}

\* match-table items of every shape
TableItems ==
    {JArr(<<JStr("Alice"), JStr("#FF0000")>>),
     JArr(<<JNum(1), JStr("#FF0000")>>),
     JArr(<<JArr(<<JStr("*")>>), JStr("#FF0000")>>),
     JArr(<<JArr(<<JNum(0), JNum(1)>>), JStr("#FF0000")>>),
     JNum(0),
     JArr(<<>>),
     JArr(<<JStr("Alice")>>),
     JArr(<<JStr("Alice"), JStr("#FF0000"), JStr("#0000FF")>>),
     JArr(<<JStr("Alice"), JNum(1)>>),
     JArr(<<JArr(<<JStr("*"), JNum(1)>>), JStr("#FF0000")>>),
     JArr(<<JArr(<<JStr("*"), JNum(0), JNum(1)>>), JStr("#FF0000")>>),
     JArr(<<JArr(<<JNum(0), JNum(1), JNum(2)>>), JStr("#FF0000")>>),
     JArr(<<JArr(<<>>), JStr("#FF0000")>>),
     JArr(<<JArr(<<JNum(0), JStr("Alice")>>), JStr("#FF0000")>>),
     JArr(<<JArr(<<JNeg(1), JNum(1)>>), JStr("#FF0000")>>),
     JArr(<<JNull, JStr("#FF0000")>>),
     JArr(<<JBool, JStr("#FF0000")>>),
     JArr(<<JObj, JStr("#FF0000")>>),
     JArr(<<JNeg(1), JStr("#FF0000")>>),
     JArr(<<JFrac(1), JStr("#FF0000")>>)}

InitParse ==
    /\ pc = "start"
    /\ \/ \E b0 \in Buffers0, b1 \in Buffers1, n \in 0..MaxArgs :
             args = [i \in 1..n |-> IF i = 1 THEN b0 ELSE b1]
       \/ \E rows \in SeqsUpTo(HeadRows, MaxPool) \cup SeqsUpTo(KindPatternRows, MaxPool) :
             args = <<DOB0Buffer(<<NameOutput>>), RowsBuffer(rows)>>
       \/ \E table \in SeqsUpTo(TableItems, MaxTable) :
             args = <<DOB0Buffer(<<NameOutput>>),
                      RowsBuffer(<<Append(Row("0", "color", "Name", "options"),
                                          JArr(table))>>)>>
    /\ parameters = NoParametersYet
    /\ syscall_parameters = NoResult
    /\ exit_code = -1
    /\ CodecIdle

SpecParse == InitParse /\ [][Next]_vars

(***************************************************************************)
(* What the claims speak of                                                *)
(***************************************************************************)
\* the pipeline has returned
Returned == syscall_parameters.st # "none"
Succeeded == syscall_parameters.st = "ok"

\* a match key matches a resolved value (specification 4.4)
KeyMatches(key, value) ==
    CASE key.k = "Any" -> TRUE
      [] key.k = "String" -> value.k = "String" /\ value.s = key.s
      [] key.k = "Number" -> value.k = "Number" /\ value.n = key.a
      [] key.k = "Range" -> value.k = "Number" /\ key.a <= value.n /\ value.n <= key.b

\* under SpecMatch: the match table as declared in the one schema row, the keys
\* it declares, and the value of the one trait
DeclaredTable == args[2].value.a[1].a[5].a
DeclaredKey(i) == DecodeKey(DeclaredTable[i].a[1]).v
DeclaredContent(i) == DeclaredTable[i].a[2].s
ResolvedValue == VecDOB0Output(args[1]).v[1].traits[1]
DeclaredHits == {i \in DOMAIN DeclaredTable : KeyMatches(DeclaredKey(i), ResolvedValue)}
DistinctKeys ==
    \A i, j \in DOMAIN DeclaredTable : i # j => DeclaredKey(i) # DeclaredKey(j)

\* C1: a successful lookup in a table of distinct keys selects the content of the
\* first declared key that matches the resolved value (declaration order decides
\* between overlapping keys, e.g. a Wildcard declared before a narrower key).
C1_FirstDeclaredMatchWins ==
    (Succeeded /\ DistinctKeys /\ DeclaredHits # {})
        => syscall_parameters.v[1].items
               = <<Item("ColorCode", DeclaredContent(Min(DeclaredHits)))>>

\* C2: when the only key that matches the resolved value is declared more than
\* once, with different contents, the content of its first declaration is selected.
C2_FirstDeclarationOfDuplicateKey ==
    (/\ Succeeded
     /\ Cardinality(DeclaredHits) > 1
     /\ \A i, j \in DeclaredHits : DeclaredKey(i) = DeclaredKey(j))
        => syscall_parameters.v[1].items
               = <<Item("ColorCode", DeclaredContent(Min(DeclaredHits)))>>

\* the one-key table of C10: a single NumericRange key with start <= end, and a
\* Number as the resolved value
SingleRange ==
    /\ Len(DeclaredTable) = 1
    /\ DeclaredKey(1).k = "Range"
    /\ DeclaredKey(1).a <= DeclaredKey(1).b
    /\ ResolvedValue.k = "Number"

\* C10: a single range key (start, end), start <= end, against a Number v: the
\* pipeline succeeds and the key's content is selected iff start <= v <= end;
\* outside the range (v = start - 1, v = end + 1) there is no value and no item.
C10_RangeInclusive ==
    (Returned /\ SingleRange)
        => /\ Succeeded
           /\ Len(syscall_parameters.v) = 1
           /\ syscall_parameters.v[1].items =
                 IF /\ DeclaredKey(1).a <= ResolvedValue.n
                    /\ ResolvedValue.n <= DeclaredKey(1).b
                 THEN <<Item("ColorCode", DeclaredContent(1))>>
                 ELSE <<>>

\* C10 witness: v = end of a range with start < end, and the key was selected
C10_Witness ==
    /\ Succeeded
    /\ SingleRange
    /\ DeclaredKey(1).a < DeclaredKey(1).b
    /\ ResolvedValue.n = DeclaredKey(1).b
    /\ syscall_parameters.v[1].items = <<Item("ColorCode", DeclaredContent(1))>>

(***************************************************************************)
(* The schema entries, the trait output and the runs the pipeline works on *)
(***************************************************************************)
Schema == parameters.v.images_base
Outputs == parameters.v.dob0_output
Pairs == syscall_parameters.v

\* the entries that start a maximal run of adjacent entries of one image name
RunStarts == {i \in DOMAIN Schema : i = 1 \/ Schema[i - 1].name # Schema[i].name}
RunCount == Cardinality(RunStarts)
RunStart(k) == CHOOSE b \in RunStarts : Cardinality({x \in RunStarts : x <= b}) = k
RunEnd(k) == IF k = RunCount THEN Len(Schema) ELSE RunStart(k + 1) - 1
RunOf(i) == Cardinality({x \in RunStarts : x <= i})

\* what entry i resolves to and, if it resolves, what matching gives
Resolved(i) == get_dob0_value_by_name(Schema[i].dob0_trait, Outputs)
Selected(i) == SelectValue(Schema[i], Resolved(i).v)
\* entry i stops its run: its trait does not resolve, or matching yields no value
Stops(i) == ~Resolved(i).some \/ (Selected(i).st = "ok" /\ ~Selected(i).v.some)
\* entry i raises a hard match error
HardError(i) == Resolved(i).some /\ Selected(i).st = "err"
\* the run of entry i gets as far as entry i
ReachedInRun(i) ==
    \A j \in 1..(i - 1) :
        (\A x \in (j + 1)..i : x \notin RunStarts) => (~Stops(j) /\ ~HardError(j))
\* the first entry of run k that stops it (one past the run if none does)
StopOf(k) ==
    LET stopping == {i \in RunStart(k)..RunEnd(k) : Stops(i)}
    IN IF stopping # {} THEN Min(stopping) ELSE RunEnd(k) + 1
\* the entries that the pipeline would reach in their run and that fail
Failing == {i \in DOMAIN Schema : ReachedInRun(i) /\ HardError(i)}

KindTag(type_) ==
    CASE type_ = "ColorCode" -> "Color"
      [] type_ = "URI" -> "URI"
      [] type_ = "RawImage" -> "RawImage"

\* C3: on success, the item list of every run is the items of the entries before
\* the first entry of the run whose trait does not resolve (no trait output of
\* that name has a value) or whose table yields no value, in declared order, each
\* tagged with the entry's kind and carrying the selected content; a truncated
\* run, also an empty one, is no error.
C3_TruncatedRuns ==
    /\ (Returned /\ Failing = {}) => Succeeded
    /\ Succeeded =>
        /\ Len(Pairs) = RunCount
        /\ \A k \in 1..RunCount :
              LET first == RunStart(k)
                  stop == StopOf(k)
              IN /\ Len(Pairs[k].items) = stop - first
                 /\ \A j \in 1..(stop - first) :
                       /\ Pairs[k].items[j].tag = KindTag(Schema[first + j - 1].type_)
                       /\ Pairs[k].items[j].bytes = Selected(first + j - 1).v.v

\* C3 witness: a run of two entries whose second entry's trait is missing gave
\* exactly the first entry's item, and the pipeline succeeded
C3_Witness ==
    /\ Succeeded
    /\ Len(Schema) = 2
    /\ RunCount = 1
    /\ Resolved(1).some
    /\ \A o \in DOMAIN Outputs : Outputs[o].name # Schema[2].dob0_trait
    /\ Len(Pairs[1].items) = 1

\* C4: on success there is exactly one pair per maximal run of adjacent entries
\* of one image name, in the order of the runs, named after its run: adjacent
\* pairs never carry the same name, entries of one name that are not adjacent
\* give separate pairs, and an empty schema gives no pair.
C4_OnePairPerRun ==
    Succeeded =>
        /\ Len(Pairs) = RunCount
        /\ \A k \in 1..RunCount : Pairs[k].name = Schema[RunStart(k)].name
        /\ \A k \in 1..(Len(Pairs) - 1) : Pairs[k].name # Pairs[k + 1].name
        /\ (Schema = <<>> => Pairs = <<>>)

\* C4 witness: the names "0", "1", "0" gave three pairs, the first and the last
\* both named "0"
C4_Witness ==
    /\ Succeeded
    /\ Len(Schema) = 3
    /\ Schema[1].name = "0" /\ Schema[2].name = "1" /\ Schema[3].name = "0"
    /\ Len(Pairs) = 3
    /\ Pairs[1].name = "0" /\ Pairs[2].name = "1" /\ Pairs[3].name = "0"

\* the hard match error the specification gives for entry i (4.4), whose trait
\* resolves
MatchError(i) ==
    IF Schema[i].pattern \in {"Options", "Range"} /\ ~Schema[i].args.some
    THEN "DecodeInvalidOptionArgs"
    ELSE IF Schema[i].pattern = "Raw" THEN "DecodeInvalidRawValue"
    ELSE "SchemaInvalidParsedTraitType"

\* C5: if an entry that the pipeline reaches raises a hard match error (no match
\* table for Options/Range, Raw on a Number, a key of another scalar kind than
\* the value), the pipeline returns the error of the first such entry and no
\* pair at all, also none for the runs completed before, and main exits with
\* that error's code.
C5_HardErrorAbortsAll ==
    Returned =>
        LET failing == Failing IN
        failing # {} =>
            /\ syscall_parameters.st = "err"
            /\ syscall_parameters.err = MatchError(Min(failing))
            /\ Pairs = <<>>
            /\ pc = "exit"
            /\ exit_code = ErrorCode(MatchError(Min(failing)))

\* C5 witness: the failing entry is in the second run, after a first run that
\* was completed without error and with an item
C5_Witness ==
    /\ Returned
    /\ Failing # {}
    /\ RunOf(Min(Failing)) = 2
    /\ ~Stops(1)
    /\ syscall_parameters.st = "err"
    /\ Pairs = <<>>

\* the first TraitOutput of that name has a value
HasFirstValue(trait) ==
    /\ \E o \in DOMAIN Outputs : Outputs[o].name = trait
    /\ Len(Outputs[Min({o \in DOMAIN Outputs : Outputs[o].name = trait})].traits) > 0
FirstValue(trait) ==
    Outputs[Min({o \in DOMAIN Outputs : Outputs[o].name = trait})].traits[1]

\* the scalar kind of the value agrees with every key of the table but Wildcard
KindsAgree(map, value) ==
    \A e \in DOMAIN map :
        \/ map[e].key.k = "Any"
        \/ (map[e].key.k = "String") = (value.k = "String")

\* the precondition of C8 for entry i
WellMatched(i) ==
    /\ HasFirstValue(Schema[i].dob0_trait)
    /\ Schema[i].args.some
           => KindsAgree(Schema[i].args.v, FirstValue(Schema[i].dob0_trait))
    /\ Schema[i].pattern \in {"Options", "Range"}
           => /\ Schema[i].args.some
              /\ \E e \in DOMAIN Schema[i].args.v :
                    KeyMatches(Schema[i].args.v[e].key, FirstValue(Schema[i].dob0_trait))

\* (main does not exit with the code of an error of the decoder)
NoRunTruncated ==
    /\ Succeeded
    /\ exit_code \notin 1..17
    /\ Len(Pairs) = RunCount
    /\ \A k \in 1..RunCount : Len(Pairs[k].items) = RunEnd(k) - RunStart(k) + 1

\* C8 as stated: if the inputs parse and every entry's trait has a first value
\* that agrees in kind with the entry's keys, and every Options/Range entry has a
\* table with a key that matches it, the pipeline succeeds with one item per
\* entry.
C8_AsStated ==
    (Returned /\ \A i \in DOMAIN Schema : WellMatched(i)) => NoRunTruncated

\* the instance of C8: trait Name = "Ethan" and the one row
\* ["0","color","Name","options",[Alice, Ethan, wildcard]]
EthanInstance ==
    /\ Outputs = <<DOB0Output("Name", <<PString("Ethan")>>)>>
    /\ args[2] = RowsBuffer(<<CHOOSE r \in LayerRows("0") : r[2].s = "color" /\ Len(r) = 5>>)

\* C8 amended: the same, provided also that the value of every Raw entry is a
\* String; and in the instance the result is the one image "0" with the one
\* Color item "#FF0000".
C8_NoTruncation ==
    /\ (/\ Returned
        /\ \A i \in DOMAIN Schema :
              /\ WellMatched(i)
              /\ Schema[i].pattern = "Raw"
                    => FirstValue(Schema[i].dob0_trait).k = "String")
           => NoRunTruncated
    /\ (Returned /\ EthanInstance)
           => Pairs = <<[name |-> "0", items |-> <<[tag |-> "Color", bytes |-> "#FF0000"]>>]>>

\* C8 witness: the instance has run
C8_Witness ==
    /\ Returned
    /\ EthanInstance
    /\ Pairs = <<[name |-> "0", items |-> <<[tag |-> "Color", bytes |-> "#FF0000"]>>]>>

\* C9: a Raw entry that the pipeline reaches and whose trait resolves gives, for
\* a String, an item carrying that string unchanged, whatever table the row has,
\* and for a Number the error DecodeInvalidRawValue (code 15), neither another
\* error nor a truncated run.
C9_RawPassThrough ==
    Returned =>
        \A i \in DOMAIN Schema :
            (Schema[i].pattern = "Raw" /\ ReachedInRun(i) /\ Resolved(i).some) =>
                IF Resolved(i).v.k = "String"
                THEN Succeeded =>
                        /\ Len(Pairs[RunOf(i)].items) >= i - RunStart(RunOf(i)) + 1
                        /\ Pairs[RunOf(i)].items[i - RunStart(RunOf(i)) + 1]
                              = [tag |-> KindTag(Schema[i].type_), bytes |-> Resolved(i).v.s]
                ELSE /\ ~Succeeded
                     /\ i = Min(Failing)
                            => /\ syscall_parameters.err = "DecodeInvalidRawValue"
                               /\ exit_code = 15

\* C9 witness: a Raw entry on a Number was reached and the pipeline failed with
\* DecodeInvalidRawValue
C9_Witness ==
    /\ Returned
    /\ Failing # {}
    /\ Schema[Min(Failing)].pattern = "Raw"
    /\ Resolved(Min(Failing)).v.k = "Number"
    /\ syscall_parameters.err = "DecodeInvalidRawValue"
    /\ exit_code = 15

\* C6: the unit test's round trip: for entries with a legal (kind, pattern)
\* pair, decoding the encoded rows succeeds and gives back the entries.
C6_EncodeDecodeRoundTrip ==
    pc = "test_done" => decoded.st = "ok" /\ decoded.v = traits

\* C7: decoding well-formed rows and encoding the decoded entries gives rows
\* with the same name, kind keyword, pattern keyword and match-table items in
\* the same order.
C7_DecodeEncodeRoundTrip ==
    pc = "done" =>
        /\ decoded.st = "ok"
        /\ Len(reencoded) = Len(encoded)
        /\ \A i \in DOMAIN encoded :
              /\ Len(reencoded[i]) = Len(encoded[i])
              /\ reencoded[i][1] = encoded[i][1]
              /\ reencoded[i][2] = encoded[i][2]
              /\ reencoded[i][4] = encoded[i][4]
              /\ Len(encoded[i]) = 5 => reencoded[i][5] = encoded[i][5]

(***************************************************************************)
(* The buffers given to dobs_parse_parameters and what it returned         *)
(***************************************************************************)
ParseReturned == parameters.st # "none"

\* the JSON of a trait value: {"String": string} or {"Number": unsigned}
IsTraitValueJson(j) ==
    /\ j.t = "object"
    /\ Len(j.a) = 1
    /\ \/ j.a[1].s = "String" /\ j.a[1].a[1].t = "string"
       \/ j.a[1].s = "Number" /\ j.a[1].a[1].t = "u64"

IsTraitValuesJson(j) ==
    j.t = "array" /\ \A i \in DOMAIN j.a : IsTraitValueJson(j.a[i])

\* the JSON of a TraitOutput: the record of a name and its values, written as
\* an object with the members name and traits or as the array [name, traits]
IsTraitOutputJson(j) ==
    \/ /\ j.t = "object"
       /\ \E n, v \in DOMAIN j.a :
             /\ j.a[n].s = "name" /\ j.a[n].a[1].t = "string"
             /\ j.a[v].s = "traits" /\ IsTraitValuesJson(j.a[v].a[1])
             /\ \A m \in DOMAIN j.a : j.a[m].s = "name" => m = n
             /\ \A m \in DOMAIN j.a : j.a[m].s = "traits" => m = v
    \/ /\ j.t = "array"
       /\ Len(j.a) = 2
       /\ j.a[1].t = "string"
       /\ IsTraitValuesJson(j.a[2])

\* the bytes are the JSON of a sequence of TraitOutput
IsTraitOutputs(buffer) ==
    /\ buffer.form = "json"
    /\ buffer.value.t = "array"
    /\ \A i \in DOMAIN buffer.value.a : IsTraitOutputJson(buffer.value.a[i])

\* the bytes deserialize as an array of arrays: they are the JSON of one,
\* nested less than RecursionLimit deep
IsArrayOfArrays(buffer) ==
    /\ buffer.form = "json"
    /\ buffer.value.t = "array"
    /\ \A i \in DOMAIN buffer.value.a : buffer.value.a[i].t = "array"
    /\ ~TooDeep(buffer.value)

\* the rows of an array of arrays
RowsOf(buffer) ==
    IF buffer.form = "json"
    THEN [i \in DOMAIN buffer.value.a |-> buffer.value.a[i].a]
    ELSE <<>>

\* C11: dobs_parse_parameters reports the first failure of: the number of
\* buffers is 2 (ParseInvalidArgCount); buffer 0 is not empty and is a JSON
\* sequence of TraitOutput (ParseInvalidDOB0Output); buffer 1 is a JSON array of
\* arrays (ParseInvalidTraitsBase); the schema decoder accepts the rows (its own
\* error).  A bad buffer 0 is reported whatever buffer 1 is, and on an error
\* there is no Parameters value and main exits with the error's code.
C11_CheckOrder ==
    ParseReturned =>
        /\ IF Len(args) # 2
           THEN parameters.st = "err" /\ parameters.err = "ParseInvalidArgCount"
           ELSE IF args[1].form = "empty" \/ ~IsTraitOutputs(args[1])
           THEN parameters.st = "err" /\ parameters.err = "ParseInvalidDOB0Output"
           ELSE IF ~IsArrayOfArrays(args[2])
           THEN parameters.st = "err" /\ parameters.err = "ParseInvalidTraitsBase"
           ELSE LET d == decode_trait_schema(RowsOf(args[2])) IN
                /\ parameters.st = d.st
                /\ parameters.err = d.err
                /\ d.st = "ok" => parameters.v = Parameters(VecDOB0Output(args[1]).v, d.v)
        /\ parameters.st # "ok" =>
              /\ parameters.v = NoParameters
              /\ syscall_parameters = NoResult
              /\ pc = "exit"
        /\ parameters.st = "err" => exit_code = ErrorCode(parameters.err)

\* C11 witness: two buffers, both of them not JSON, and the error is that of
\* buffer 0
C11_Witness ==
    /\ ParseReturned
    /\ Len(args) = 2
    /\ args[1].form = "garbage"
    /\ args[2].form = "garbage"
    /\ parameters.st = "err"
    /\ parameters.err = "ParseInvalidDOB0Output"
    /\ exit_code = 2

\* under SpecMatch: the table declares a key of another scalar kind than the
\* resolved value (a Number or Range key for a String, a String key for a Number)
KindMismatch ==
    \E i \in DOMAIN DeclaredTable :
        \/ DeclaredKey(i).k \in {"Number", "Range"} /\ ResolvedValue.k = "String"
        \/ DeclaredKey(i).k = "String" /\ ResolvedValue.k = "Number"

\* C12: when the match table declares any key whose scalar kind disagrees with
\* the kind of the resolved value, matching fails with
\* SchemaInvalidParsedTraitType, whichever key matches the value and wherever
\* the disagreeing key is declared.
C12_KindMismatchAlwaysFails ==
    (Returned /\ KindMismatch)
        => /\ syscall_parameters.st = "err"
           /\ syscall_parameters.err = "SchemaInvalidParsedTraitType"

\* the lookup of specification 4.3: the first value of the first TraitOutput of
\* that name, nothing if there is no such TraitOutput or it has no value
FirstOutputValue(trait) ==
    IF HasFirstValue(trait) THEN Some(FirstValue(trait)) ELSE NoParsedTrait

\* C13: the lookup of an entry's source trait gives the first value of the
\* first TraitOutput of that name and nothing else: nothing when that
\* TraitOutput has no value, even if a later TraitOutput of the name has one;
\* so a first entry whose first TraitOutput is empty leaves its run without items.
C13_FirstOutputOfNameOnly ==
    Returned =>
        /\ \A i \in DOMAIN Schema :
              get_dob0_value_by_name(Schema[i].dob0_trait, Outputs)
                  = FirstOutputValue(Schema[i].dob0_trait)
        /\ (/\ Succeeded
            /\ Schema # <<>>
            /\ ~HasFirstValue(Schema[1].dob0_trait)) => Pairs[1].items = <<>>

(***************************************************************************)
(* The rows given to the schema decoder                                    *)
(***************************************************************************)
\* both buffers have the outer shape dobs_parse_parameters asks for
OuterShapeOk ==
    /\ ParseReturned
    /\ Len(args) = 2
    /\ IsTraitOutputs(args[1])
    /\ IsArrayOfArrays(args[2])

GivenRows == RowsOf(args[2])

\* the checks of a row in the order of specification 4.1, each with its error
RowChecks(row) ==
    <<[fails |-> Len(row) < 4, err |-> "SchemaInsufficientElements"],
      [fails |-> Len(row) >= 4 /\ row[1].t # "string", err |-> "SchemaInvalidName"],
      [fails |-> Len(row) >= 4 /\ row[2].t # "string", err |-> "SchemaInvalidType"],
      [fails |-> /\ Len(row) >= 4
                 /\ row[2].t = "string"
                 /\ row[2].s \notin {"color", "uri", "image"},
       err |-> "SchemaTypeMismatch"],
      [fails |-> Len(row) >= 4 /\ row[3].t # "string", err |-> "SchemaInvalidTraitName"],
      [fails |-> Len(row) >= 4 /\ row[4].t # "string", err |-> "SchemaInvalidPattern"],
      [fails |-> /\ Len(row) >= 4
                 /\ row[2].t = "string"
                 /\ row[4].t = "string"
                 /\ <<row[2].s, row[4].s>> \notin LegalKeywords,
       err |-> "SchemaPatternMismatch"],
      [fails |-> Len(row) >= 5 /\ DecodeArgs(row).st # "ok",
       err |-> IF Len(row) >= 5 THEN DecodeArgs(row).err ELSE "None"]>>

FailedChecks(row) ==
    LET checks == RowChecks(row) IN {c \in DOMAIN checks : checks[c].fails}

FailingRows == {i \in DOMAIN GivenRows : FailedChecks(GivenRows[i]) # {}}

\* the error of the first failing check of the first failing row
FirstRowError ==
    LET checks == RowChecks(GivenRows[Min(FailingRows)])
    IN checks[Min({c \in DOMAIN checks : checks[c].fails})].err

\* C14: the schema decoder checks the rows in input order and each row in the
\* order length, name, kind (not a string, then unrecognized), source trait,
\* pattern (not a string, then incompatible), match table; it returns the error
\* of the first failing check of the first failing row, and the entries of all
\* rows when no check fails.
C14_ValidationOrder ==
    OuterShapeOk =>
        IF FailingRows = {}
        THEN parameters.st = "ok" /\ Len(parameters.v.images_base) = Len(GivenRows)
        ELSE LET error == FirstRowError IN
             /\ parameters.st # "ok"
             /\ parameters.err = error
             /\ parameters.st = "err" => exit_code = ErrorCode(error)

\* C14 witness: a well-formed first row, then a 4-element row with a name that
\* is no string and an unrecognized kind keyword: SchemaInvalidName
C14_Witness ==
    /\ OuterShapeOk
    /\ Len(GivenRows) = 2
    /\ FailingRows = {2}
    /\ Len(GivenRows[2]) = 4
    /\ GivenRows[2][1].t # "string"
    /\ GivenRows[2][2] = JStr("Zed")
    /\ parameters.err = "SchemaInvalidName"
    /\ exit_code = 5

\* the pairs of recognized keywords that specification 3 does not allow
IllegalKeywords == {<<"color", "raw">>, <<"image", "options">>, <<"image", "range">>}

KindOfKeyword(k) ==
    CASE k = "color" -> "ColorCode" [] k = "uri" -> "URI" [] k = "image" -> "RawImage"
PatternOfKeyword(p) ==
    CASE p = "options" -> "Options" [] p = "range" -> "Range" [] p = "raw" -> "Raw"

\* the first row that fails, and whether it fails at its pattern element at
\* the earliest
FirstFailingRow == GivenRows[Min(FailingRows)]
FailsAtPattern == Min(FailedChecks(FirstFailingRow)) >= 6

\* C15: every entry of a decoded Parameters has a legal (kind, pattern) pair,
\* the one its row's keywords name: Options and Range only with ColorCode or
\* URI, Raw only with RawImage or URI.  A row with color+raw, image+options or
\* image+range is rejected with SchemaPatternMismatch and a row whose pattern is
\* no string with SchemaInvalidPattern.
C15_LegalKindPattern ==
    /\ parameters.st = "ok" =>
          \A i \in DOMAIN parameters.v.images_base :
              <<parameters.v.images_base[i].type_, parameters.v.images_base[i].pattern>>
                  \in LegalPairs
    /\ (OuterShapeOk /\ parameters.st = "ok") =>
          \A i \in DOMAIN GivenRows :
              /\ parameters.v.images_base[i].type_ = KindOfKeyword(GivenRows[i][2].s)
              /\ parameters.v.images_base[i].pattern = PatternOfKeyword(GivenRows[i][4].s)
    /\ (OuterShapeOk /\ FailingRows # {} /\ FailsAtPattern) =>
          LET row == FirstFailingRow IN
          /\ row[4].t # "string" => parameters.err = "SchemaInvalidPattern"
          /\ (row[4].t = "string" /\ <<row[2].s, row[4].s>> \in IllegalKeywords)
                 => parameters.err = "SchemaPatternMismatch"

\* C15 witness: the row ["0","image","Name","options"] was rejected with
\* SchemaPatternMismatch
C15_Witness ==
    /\ OuterShapeOk
    /\ GivenRows = <<Row("0", "image", "Name", "options")>>
    /\ parameters.st = "err"
    /\ parameters.err = "SchemaPatternMismatch"
    /\ exit_code = 10

(***************************************************************************)
(* The match-table items given to the schema decoder                       *)
(***************************************************************************)
\* the one row of the schema has well-formed first four elements and a fifth
\* element that is an array
OneTableRow ==
    /\ OuterShapeOk
    /\ Len(GivenRows) = 1
    /\ Len(GivenRows[1]) = 5
    /\ SubSeq(GivenRows[1], 1, 4) = Row("0", "color", "Name", "options")
    /\ GivenRows[1][5].t = "array"

GivenItems == GivenRows[1][5].a

\* a key of specification 4.1: a number, a string, ["*"], or [start, end] of
\* two unsigned numbers
KeyOfSpecifiedShape(key) ==
    \/ key.t \in {"u64", "i64", "f64", "string"}
    \/ key = JArr(<<JStr("*")>>)
    \/ /\ key.t = "array"
       /\ Len(key.a) = 2
       /\ key.a[1].t = "u64"
       /\ key.a[2].t = "u64"

\* an item of specification 4.1: an array of exactly two elements, a key of a
\* specified shape and a string
ItemOfSpecifiedShape(item) ==
    /\ item.t = "array"
    /\ Len(item.a) = 2
    /\ KeyOfSpecifiedShape(item.a[1])
    /\ item.a[2].t = "string"

\* no key is a negative or a fractional number
UnsignedNumberKeys ==
    \A i \in DOMAIN GivenItems :
        (GivenItems[i].t = "array" /\ Len(GivenItems[i].a) >= 1)
            => GivenItems[i].a[1].t \notin {"i64", "f64"}

\* C16: a match table is accepted only when every item is an array of exactly
\* two elements, a key that is a number, a string, ["*"] or [start, end] of two
\* unsigned numbers, and a string value; an item of any other shape (of 1 or 3
\* elements, with a value that is no string, with a key ["*", 1], a 3-element
\* key array, null, a boolean or an object) fails with SchemaInvalidArgsElement.
C16_ItemShapes ==
    (OneTableRow /\ UnsignedNumberKeys) =>
        IF \A i \in DOMAIN GivenItems : ItemOfSpecifiedShape(GivenItems[i])
        THEN parameters.st = "ok"
        ELSE parameters.st = "err" /\ parameters.err = "SchemaInvalidArgsElement"

\* C17: dobs_parse_parameters followed by dobs_parse_syscall_parameters ends
\* with a successful result, and only then can main end with code 0, or with
\* one enumerated error, with which main exits under the error's own code
\* 1..17; no input, also no match-table key that is a negative or a fractional
\* number, makes either function panic (code 101).
C17_NoAbnormalAbort ==
    /\ \A e, f \in DOMAIN Errors : Errors[e] = Errors[f] => e = f
    /\ parameters.st # "panic"
    /\ syscall_parameters.st # "panic"
    /\ (pc = "exit" /\ exit_code = 0) => Succeeded
    /\ (pc = "exit" /\ ~Succeeded) =>
          /\ exit_code \in 1..17
          /\ \/ parameters.st = "err" /\ Errors[exit_code] = parameters.err
             \/ syscall_parameters.st = "err"
                    /\ Errors[exit_code] = syscall_parameters.err

(***************************************************************************)
(* Entries behind the stopping point of their run                          *)
(***************************************************************************)
\* an Options or Range entry declared without a match table
NoTable(i) == Schema[i].pattern \in {"Options", "Range"} /\ ~Schema[i].args.some

\* an earlier entry of the run of entry i stops the run
StoppedBefore(i) ==
    \E j \in 1..(i - 1) : (\A x \in (j + 1)..i : x \notin RunStarts) /\ Stops(j)

\* C18: an Options or Range entry without a match table raises
\* DecodeInvalidOptionArgs only if its trait resolves and no earlier entry of
\* its run stopped the run; entries at or behind the stopping point of their
\* run give no item, and if every entry that would raise a hard error lies
\* behind the stopping point of its run, the pipeline succeeds.
C18_ErrorsMaskedByTruncation ==
    Returned =>
        /\ syscall_parameters.err = "DecodeInvalidOptionArgs" =>
              \E i \in DOMAIN Schema :
                  NoTable(i) /\ Resolved(i).some /\ ~StoppedBefore(i)
        /\ (\A i \in DOMAIN Schema : HardError(i) => StoppedBefore(i)) => Succeeded
        /\ Succeeded =>
              \A i \in DOMAIN Schema :
                  (Stops(i) \/ StoppedBefore(i))
                      => LET k == RunOf(i) IN Len(Pairs[k].items) <= i - RunStart(k)

\* C18 witness: an entry without a match table whose trait resolves lies behind
\* an entry that stopped the run, and the pipeline succeeded with the run cut
\* before both
C18_Witness ==
    /\ Succeeded
    /\ \E i \in DOMAIN Schema :
          /\ NoTable(i)
          /\ Resolved(i).some
          /\ StoppedBefore(i)
          /\ Len(Pairs[RunOf(i)].items) < i - RunStart(RunOf(i))

====
